---- MODULE Spec2Model ----
(***************************************************************************)
(* Model of validation_app.py: a Streamlit review page over a CSV feedback *)
(* store.  The state is the feedback file on disk, Streamlit's             *)
(* session_state, and what the last completed script run displayed.  Each  *)
(* user action is one step: the script run in which the clicked button     *)
(* returns True, the handler, and the run that st.rerun() starts.          *)
(***************************************************************************)
EXTENDS Integers, Sequences, FiniteSets, TLC

\* ---------------------------------------------------------------- bounds
\* Number of user actions explored in one session.
MaxSteps == 3

\* Number of actions explored in a session that only navigates.
MaxNav == 4

\* Number of files in an imagery directory, and of entries in a timeline.
MaxImages == 2

MaxEntries == 2

\* ------------------------------------------------------------ value sets
\* pandas / Python missing values, kept as strings so that cells compare.
None == "<None>"
NaN == "<NaN>"

\* articles = sorted(get_valid_articles()): the catalog of the session.
articles == <<"a1", "a2", "a3">>

ArticleIds == {articles[i] : i \in 1..Len(articles)}

\* The three judgments the buttons write.
Judgments == {"Yes", "No", "Unsure"}

\* datetime.date values a date picker can hold; <<>> is Python's None.
NoDate == <<>>

DateObjs == {<<2023, 1, 5>>, <<2023, 1, 10>>}

\* What the reviewer picks in the start and in the end date picker.
StartPicks == {NoDate, <<2023, 1, 5>>}

EndPicks == {NoDate, <<2023, 1, 10>>}

\* Texts typed into the note box ("" is the empty box).
NoteTexts == {"", "hello", "NA"}

\* ------------------------------------------------------ date conversions
Pad2(n) == IF n < 10 THEN "0" \o ToString(n) ELSE ToString(n)

\* date.isoformat()
isoformat(d) == ToString(d[1]) \o "-" \o Pad2(d[2]) \o "-" \o Pad2(d[3])

\* datetime.fromisoformat(s).date() on the strings the app stores
fromisoformat(s) == CHOOSE d \in DateObjs : isoformat(d) = s

\* ---------------------------------------------------------- CSV on disk
columns == <<"article_id", "visible", "new_start_date", "new_end_date", "notes">>

\* pandas' default na_values among the cell texts of this model: an empty
\* cell and the text NA both read back as NaN.
NaTexts == {"", "NA"}

\* One cell as pd.read_csv(dtype=object) returns it.
read_cell(text) == IF text \in NaTexts THEN NaN ELSE text

\* One cell as DataFrame.to_csv writes it: None, NaN and pd.NA become the
\* empty field (na_rep), and so does the empty string.
to_csv_cell(v) == IF v \in {None, NaN} THEN "" ELSE v

\* pd.read_csv(FEEDBACK_FILE, dtype="object"): the rows as a DataFrame.
read_csv(f) ==
    [i \in 1..Len(f.rows) |-> [c \in DOMAIN f.rows[i] |-> read_cell(f.rows[i][c])]]

\* df.to_csv(FEEDBACK_FILE, index=False): the file the DataFrame becomes.
to_csv(df) ==
    [exists |-> TRUE,
     rows |-> [i \in 1..Len(df) |-> [c \in DOMAIN df[i] |-> to_csv_cell(df[i][c])]]]

\* pd.DataFrame(columns=[...]): no rows.
EmptyDf == <<>>

\* article_id in df["article_id"].values
HasRow(df, id) == \E i \in 1..Len(df) : df[i].article_id = id

\* df.loc[df["article_id"] == id, col].values[0]
CellOf(df, id, col) == df[CHOOSE i \in 1..Len(df) : df[i].article_id = id][col]

\* df.loc[df["article_id"] == id, col] = v
SetCell(df, id, col, v) ==
    [i \in 1..Len(df) |-> IF df[i].article_id = id THEN [df[i] EXCEPT ![col] = v] ELSE df[i]]

\* A new row [id, visible, start, end, notes] appended at the end.
AppendRow(df, id, vis, s, e, n) ==
    Append(df, [article_id |-> id, visible |-> vis, new_start_date |-> s,
                new_end_date |-> e, notes |-> n])

\* load_feedback_df()
load_feedback_df(f) == IF f.exists THEN read_csv(f) ELSE EmptyDf

\* Mutant of write_feedback: the key's row is replaced by a fresh one
\* instead of being updated in place.
write_feedback_replace(f, article_id, feedback, note) ==
    LET df0 == IF f.exists THEN read_csv(f) ELSE EmptyDf
        others == SelectSeq(df0, LAMBDA r : r.article_id # article_id)
        df1 == AppendRow(others, article_id, None, None, None, None)
        df2 == IF feedback # None THEN SetCell(df1, article_id, "visible", feedback) ELSE df1
        df3 == IF note # None THEN SetCell(df2, article_id, "notes", note) ELSE df2
    IN  to_csv(df3)

\* write_feedback(article_id, feedback, note): the file it leaves.
write_feedback(f, article_id, feedback, note) ==
    LET df0 == IF f.exists THEN read_csv(f) ELSE EmptyDf
        df1 == IF ~HasRow(df0, article_id)
               THEN AppendRow(df0, article_id, None, None, None, None)
               ELSE df0
        df2 == IF feedback # None THEN SetCell(df1, article_id, "visible", feedback) ELSE df1
        df3 == IF note # None THEN SetCell(df2, article_id, "notes", note) ELSE df2
    IN  to_csv(df3)

\* Mutant of undo_feedback: a key without a row gets one.
undo_feedback_upsert(f, article_id) ==
    LET df0 == IF f.exists THEN read_csv(f) ELSE EmptyDf
        df1 == IF ~HasRow(df0, article_id)
               THEN AppendRow(df0, article_id, None, None, None, None)
               ELSE df0
    IN  to_csv(SetCell(df1, article_id, "visible", NaN))

\* undo_feedback(article_id): the file it leaves.
undo_feedback(f, article_id) ==
    IF f.exists
    THEN LET df == read_csv(f)
         IN  IF HasRow(df, article_id)
             THEN to_csv(SetCell(df, article_id, "visible", NaN))
             ELSE f
    ELSE f

\* ------------------------------------------------------- session_state
\* The dict operations the script uses on per-article keys.
Pop(d, k) == [x \in (DOMAIN d) \ {k} |-> d[x]]

Put(d, k, v) == [x \in (DOMAIN d) \cup {k} |-> IF x = k THEN v ELSE d[x]]

\* A widget with a key: it keeps the value session_state holds under the
\* key, and takes its value= argument when the key is not there.
WidgetValue(d, k, value) == IF k \in DOMAIN d THEN d[k] ELSE value

\* isinstance(x, str) and x.strip(), on the cells of this model
IsText(x) == x \notin {NaN, None, ""}

\* Mutant of existing_note_top: the judgment buttons pass an empty note.
existing_note_blank(df, article_id) == ""

\* Lines 324-326: existing_visible and existing_note of the current article.
existing_visible(df, article_id) ==
    IF HasRow(df, article_id) THEN CellOf(df, article_id, "visible") ELSE None

existing_note_top(df, article_id) ==
    LET n == IF HasRow(df, article_id) THEN CellOf(df, article_id, "notes") ELSE ""
    IN  IF n = NaN THEN "" ELSE n

\* Lines 393-423: the reset of the date widgets when the article changed,
\* the saved dates, and the force-clear flags.  Returns the session and the
\* value= of the two pickers.
DatesPrefix(ss, df, article_id) ==
    LET ss1 == IF ss.dates_article_id # article_id
               THEN [ss EXCEPT !.start_w = Pop(@, article_id),
                               !.end_w = Pop(@, article_id),
                               !.dates_article_id = article_id]
               ELSE ss
        has == HasRow(df, article_id)
        s0 == IF has /\ IsText(CellOf(df, article_id, "new_start_date"))
              THEN fromisoformat(CellOf(df, article_id, "new_start_date"))
              ELSE NoDate
        e0 == IF has /\ IsText(CellOf(df, article_id, "new_end_date"))
              THEN fromisoformat(CellOf(df, article_id, "new_end_date"))
              ELSE NoDate
        fs == article_id \in ss1.force_clear_start
        ss2 == IF fs
               THEN [ss1 EXCEPT !.force_clear_start = @ \ {article_id},
                                !.start_w = Pop(@, article_id)]
               ELSE ss1
        fe == article_id \in ss2.force_clear_end
        ss3 == IF fe
               THEN [ss2 EXCEPT !.force_clear_end = @ \ {article_id},
                                !.end_w = Pop(@, article_id)]
               ELSE ss2
    IN  [ss |-> ss3,
         saved_start |-> IF fs THEN NoDate ELSE s0,
         saved_end |-> IF fe THEN NoDate ELSE e0]

\* Lines 430-435: the start date picker.
StartWidget(p, article_id) ==
    [p EXCEPT !.ss.start_w = Put(@, article_id, WidgetValue(@, article_id, p.saved_start))]

\* Lines 461-466: the end date picker.
EndWidget(p, article_id) ==
    [p EXCEPT !.ss.end_w = Put(@, article_id, WidgetValue(@, article_id, p.saved_end))]

\* st.session_state["date_message"] when there is nothing to show.
NoMessage == [type |-> "none", text |-> ""]

\* Lines 524-531: the pending message is shown once and dropped.
MessageSection(ss) == [ss EXCEPT !.date_message = NoMessage]

\* Mutant of NotesSection: the note box is not reset when the article changed.
NotesSection_keep(ss, df, article_id) ==
    LET saved_note == IF HasRow(df, article_id) THEN CellOf(df, article_id, "notes") ELSE NaN
        existing_note == IF IsText(saved_note) THEN saved_note ELSE ""
    IN  [ss EXCEPT !.note_article_id = article_id,
                   !.note_w = Put(@, article_id, WidgetValue(@, article_id, existing_note))]

\* Lines 535-559: the reset of the note box when the article changed, the
\* saved note, and the text area.
NotesSection(ss, df, article_id) ==
    LET ss1 == IF ss.note_article_id # article_id
               THEN [ss EXCEPT !.note_w = Pop(@, article_id),
                               !.note_article_id = article_id]
               ELSE ss
        saved_note == IF HasRow(df, article_id) THEN CellOf(df, article_id, "notes") ELSE NaN
        existing_note == IF IsText(saved_note) THEN saved_note ELSE ""
    IN  [ss1 EXCEPT !.note_w = Put(@, article_id, WidgetValue(@, article_id, existing_note))]

\* Streamlit drops the state of the widgets a completed run did not render:
\* the session with only the rendered widgets of the current article kept.
DropStale(ss, article_id, end_rendered, note_rendered) ==
    [ss EXCEPT !.start_w = [x \in (DOMAIN @) \cap {article_id} |-> @[x]],
               !.end_w = IF end_rendered
                         THEN [x \in (DOMAIN @) \cap {article_id} |-> @[x]]
                         ELSE <<>>,
               !.note_w = IF note_rendered
                          THEN [x \in (DOMAIN @) \cap {article_id} |-> @[x]]
                          ELSE <<>>]

\* Whether Streamlit has dropped that state when the next action arrives is
\* left open, so that nothing proved here rests on it.
AfterRun(ss, article_id, end_rendered, note_rendered) ==
    {ss, DropStale(ss, article_id, end_rendered, note_rendered)}

\* Parts of the page a run has not rendered.
HiddenDate == <<0>>

Hidden == "<hidden>"

\* The script from line 161 to the end of a run in which no button is
\* pressed: the session it leaves and what the page shows.
Run(ss, f) ==
    LET feedback_df == load_feedback_df(f)
        article_id == articles[ss.article_index + 1]
        d == EndWidget(StartWidget(DatesPrefix(ss, feedback_df, article_id), article_id), article_id)
        m == MessageSection(d.ss)
        n == NotesSection(m, feedback_df, article_id)
    IN  [ss |-> n,
         shown |-> [article |-> article_id,
                    visible |-> existing_visible(feedback_df, article_id),
                    start |-> n.start_w[article_id],
                    end |-> n.end_w[article_id],
                    note |-> n.note_w[article_id],
                    message |-> d.ss.date_message,
                    upto |-> "end"]]

\* ------------------------------------------------------- image gallery
\* File names of an imagery directory: the name, its parts at "_" and its suffix.
ImageNames ==
    {[name |-> "a_20230105_planet.png", parts |-> <<"a", "20230105", "planet.png">>, suffix |-> ".png"],
     [name |-> "b_2023-01-10_planet.jpg", parts |-> <<"b", "2023-01-10", "planet.jpg">>, suffix |-> ".jpg"],
     [name |-> "overview.png", parts |-> <<"overview.png">>, suffix |-> ".png"],
     [name |-> "readme.txt", parts |-> <<"readme.txt">>, suffix |-> ".txt"]}

\* Lines 17-20 on one part: the date it parses to, or NoDate when the part
\* has neither form.
PartDate(part) ==
    CASE part = "20230105" -> <<2023, 1, 5>>
      [] part = "2023-01-10" -> <<2023, 1, 10>>
      [] OTHER -> NoDate

\* parse_date_from_filename(name): the first part that parses, else None.
RECURSIVE parse_parts(_)
parse_parts(parts) ==
    IF parts = <<>> THEN NoDate
    ELSE IF PartDate(Head(parts)) # NoDate THEN PartDate(Head(parts))
    ELSE parse_parts(Tail(parts))

parse_date_from_filename(f) == parse_parts(f.parts)

\* Order of datetime.date values.
DateLess(d1, d2) ==
    \/ d1[1] < d2[1]
    \/ d1[1] = d2[1] /\ d1[2] < d2[2]
    \/ d1[1] = d2[1] /\ d1[2] = d2[2] /\ d1[3] < d2[3]

\* Order of the file names as Python compares strings.
NameRank(n) ==
    CASE n = "a_20230105_planet.png" -> 1
      [] n = "b_2023-01-10_planet.jpg" -> 2
      [] n = "overview.png" -> 3
      [] OTHER -> 4

\* Line 30: the sort key, a date or else the name.
KeyIsDate(f) == parse_date_from_filename(f) # NoDate

KeyLess(f, g) ==
    IF KeyIsDate(f)
    THEN DateLess(parse_date_from_filename(f), parse_date_from_filename(g))
    ELSE NameRank(f.name) < NameRank(g.name)

\* sorted() is stable: an element goes after the elements that are not greater.
RECURSIVE InsertByKey(_, _)
InsertByKey(sorted, f) ==
    IF sorted = <<>> THEN <<f>>
    ELSE IF KeyLess(f, Head(sorted)) THEN <<f>> \o sorted
    ELSE <<Head(sorted)>> \o InsertByKey(Tail(sorted), f)

RECURSIVE SortByKey(_)
SortByKey(fs) ==
    IF fs = <<>> THEN <<>> ELSE InsertByKey(SortByKey(SubSeq(fs, 1, Len(fs) - 1)), fs[Len(fs)])

\* Line 29: the image suffixes.
IsImage(f) == f.suffix \in {".jpg", ".jpeg", ".png"}

\* list_images(folder_path) on the directory listing: the sorted images, or
\* the TypeError of comparing a date key with a name key.
list_images(dir) ==
    IF ~dir.exists THEN [error |-> FALSE, files |-> <<>>]
    ELSE LET imgs == SelectSeq(dir.listing, IsImage)
         IN  IF \E i, j \in 1..Len(imgs) : KeyIsDate(imgs[i]) /\ ~KeyIsDate(imgs[j])
             THEN [error |-> TRUE, files |-> <<>>]
             ELSE [error |-> FALSE, files |-> SortByKey(imgs)]

\* Entries of a sat_timeline.
TimelineEntries ==
    {[year |-> 2023, month |-> "January", day |-> 5, caption |-> "Obscured by Clouds"],
     [year |-> 2023, month |-> "January", day |-> 5, caption |-> "Construction visible"],
     [year |-> 2023, month |-> "January", day |-> 10, caption |-> " obscured by clouds "],
     [year |-> 2023, month |-> "January", day |-> 10, caption |-> "Site cleared"],
     [year |-> 2023, month |-> "Smarch", day |-> 5, caption |-> "Obscured by Clouds"]}

\* Lines 53-57: the date of an entry, NoDate when the conversion raises.
EntryDate(entry) ==
    IF entry.month = "January" /\ entry.day \in 1..31
    THEN <<entry.year, 1, entry.day>>
    ELSE NoDate

\* Lines 51-64 for one entry: the captions after it.
add_caption(captions, entry, start_date, end_date) ==
    LET dt == EntryDate(entry)
        c0 == entry.caption
        c1 == IF start_date # NoDate /\ dt = start_date THEN "(START) " \o c0 ELSE c0
        c2 == IF end_date # NoDate /\ dt = end_date THEN "(END) " \o c1 ELSE c1
    IN  IF dt = NoDate THEN captions ELSE Put(captions, dt, c2)

\* The value of start_date and end_date when the try of lines 288-303 fails.
NotAvailable == <<"N/A">>

\* metadata[key] converted as lines 289-294 and 295-300 do: the date, or
\* NoDate when the key is missing (KeyError) or the conversion raises.
MetadataDate(metadata, key) ==
    IF key \in DOMAIN metadata THEN EntryDate(metadata[key]) ELSE NoDate

\* Lines 288-303: both dates come out of one try; whatever raises in it,
\* the bare except sets both to 'N/A'.
predicted_dates(metadata) ==
    IF MetadataDate(metadata, "start_date") = NoDate
       \/ MetadataDate(metadata, "end_date") = NoDate
    THEN [start_date |-> NotAvailable, end_date |-> NotAvailable]
    ELSE [start_date |-> MetadataDate(metadata, "start_date"),
          end_date |-> MetadataDate(metadata, "end_date")]

\* Line 306: None if the date is 'N/A', else the date.
marker_arg(d) == IF d = NotAvailable THEN NoDate ELSE d

\* Line 71: caption.strip().lower() == "obscured by clouds", on the captions
\* of this model.
is_cloud(caption) ==
    caption \in {"Obscured by Clouds", " obscured by clouds ", "obscured by clouds"}

\* Lines 69-72: whether the image is skipped.
skips(captions, f) ==
    LET date_obj == parse_date_from_filename(f)
        caption == IF date_obj # NoDate /\ date_obj \in DOMAIN captions
                   THEN captions[date_obj] ELSE ""
    IN  is_cloud(caption)

\* Lines 83-84 and 96-97: the caption under the image shown.
shown_caption(captions, f) ==
    LET date_obj == parse_date_from_filename(f)
    IN  IF date_obj = NoDate THEN f.name
        ELSE IF date_obj \in DOMAIN captions THEN captions[date_obj]
        ELSE "No caption available"

\* ---------------------------------------------------------------- state
VARIABLES
    file,           \* feedback.csv: [exists, rows], the cells as text
    dir_exists,     \* whether the directory of feedback.csv exists
    session_state,  \* st.session_state
    shown,          \* what the page shows after the last run
    op,             \* the last user action: [name, key, arg]
    before,         \* feedback.csv as it was when that action began
    assigned,       \* per article and date column, the value last assigned to the cell
    nav_trail,      \* the session's actions so far, while all are navigation
    steps,          \* number of user actions so far
    gal             \* one call of render_image_gallery_with_captions

vars == <<file, dir_exists, session_state, shown, op, before, assigned, nav_trail, steps, gal>>

DateCols == {"new_start_date", "new_end_date"}

\* The gallery before a call, and while the page is what is modelled.
NoOutcome == [kind |-> "none", name |-> "", caption |-> "", index |-> 0]

GalleryCall(dir, sat_timeline, start_date, end_date) ==
    [pc |-> "list", dir |-> dir, sat_timeline |-> sat_timeline,
     metadata |-> [k \in {} |-> NoDate],
     start_date |-> start_date, end_date |-> end_date,
     image_files |-> <<>>, captions |-> <<>>, i |-> 1, filtered |-> <<>>,
     outcome |-> NoOutcome]

GalleryIdle ==
    [GalleryCall([exists |-> FALSE, listing |-> <<>>], <<>>, NoDate, NoDate) EXCEPT !.pc = "idle"]

\* The session before the first run (line 193 sets article_index).
FreshSession ==
    [article_index |-> 0,
     start_w |-> <<>>, end_w |-> <<>>, note_w |-> <<>>,
     dates_article_id |-> None, note_article_id |-> None,
     force_clear_start |-> {}, force_clear_end |-> {},
     date_message |-> NoMessage,
     visibility_saved |-> None]

NoFile == [exists |-> FALSE, rows |-> <<>>]

HeaderOnly == [exists |-> TRUE, rows |-> <<>>]

\* A store earlier sessions left: a1 judged Yes with a saved start date, an
\* empty end date and a note; then the note NA submitted on a2.
EarlierStore ==
    [exists |-> TRUE,
     rows |-> <<[article_id |-> "a1", visible |-> "Yes", new_start_date |-> "2023-01-05",
                 new_end_date |-> "", notes |-> "hello"],
                [article_id |-> "a2", visible |-> "", new_start_date |-> "",
                 new_end_date |-> "", notes |-> "NA"]>>]

EarlierAssigned ==
    [a \in ArticleIds |->
        IF a = "a1"
        THEN [new_start_date |-> "2023-01-05", new_end_date |-> ""]
        ELSE [c \in DateCols |-> None]]

\* Another: a1 judged No with only an end date saved, a2 judged Unsure with
\* a note, and a3 touched only by the Clear button of its start date.
FullStore ==
    [exists |-> TRUE,
     rows |-> <<[article_id |-> "a1", visible |-> "No", new_start_date |-> "",
                 new_end_date |-> "2023-01-10", notes |-> ""],
                [article_id |-> "a2", visible |-> "Unsure", new_start_date |-> "",
                 new_end_date |-> "", notes |-> "hello"],
                [article_id |-> "a3", visible |-> "", new_start_date |-> "",
                 new_end_date |-> "", notes |-> ""]>>]

FullAssigned ==
    [a \in ArticleIds |->
        CASE a = "a1" -> [new_start_date |-> "", new_end_date |-> "2023-01-10"]
          [] a = "a2" -> [c \in DateCols |-> None]
          [] OTHER -> [c \in DateCols |-> ""]]

Init ==
    /\ \/ file = NoFile /\ dir_exists \in BOOLEAN
       \/ file \in {HeaderOnly, EarlierStore, FullStore} /\ dir_exists = TRUE
    /\ session_state = Run(FreshSession, file).ss
    /\ shown = Run(FreshSession, file).shown
    /\ op = [name |-> "open", key |-> articles[1], arg |-> None]
    /\ before = file
    /\ assigned = CASE file = EarlierStore -> EarlierAssigned
                    [] file = FullStore -> FullAssigned
                    [] OTHER -> [a \in ArticleIds |-> [c \in DateCols |-> None]]
    /\ nav_trail = <<>>
    /\ steps = 0
    /\ gal = GalleryIdle

\* The current article of the run that handles a click (line 217).
Current == articles[session_state.article_index + 1]

\* feedback_df of the run that handles a click (line 173).
ClickDf == load_feedback_df(file)

NavNames == {"jump", "next", "prev"}

\* st.rerun(): the handler's session and file go through a complete run.
Rerun(ss1, f1, dir1, o, asg) ==
    /\ \/ steps < MaxSteps
       \/ o.name \in NavNames /\ Len(nav_trail) = steps /\ steps < MaxNav
    /\ LET r == Run(ss1, f1)
       IN  /\ session_state' \in AfterRun(r.ss, r.shown.article, TRUE, TRUE)
           /\ shown' = r.shown
           /\ nav_trail' = IF o.name \in NavNames /\ Len(nav_trail) = steps
                           THEN Append(nav_trail, [name |-> o.name,
                                                   arg |-> IF o.name = "jump" THEN o.arg ELSE 0,
                                                   article |-> r.shown.article])
                           ELSE <<>>
    /\ file' = f1
    /\ dir_exists' = dir1
    /\ op' = o
    /\ before' = file
    /\ assigned' = asg
    /\ steps' = steps + 1
    /\ gal' = gal

\* ------------------------------------------------------------ navigation
\* Line 199-207: the number input takes min_value..max_value.
JumpInputs == 1..Len(articles)

\* Line 212: the 1-based input as the 0-based index.
jump_index(jump_index_ui) == jump_index_ui - 1

\* Mutant of next_index: the index stops at the last article instead of wrapping.
next_index_clamped(i) == IF i + 1 < Len(articles) THEN i + 1 ELSE i

\* Line 579 and line 584.
previous_index(i) == (i - 1) % Len(articles)

next_index(i) == (i + 1) % Len(articles)

\* Lines 210-213: Go.
Jump(jump_index_ui) ==
    /\ jump_index_ui \in JumpInputs
    /\ Rerun([session_state EXCEPT !.article_index = jump_index(jump_index_ui)],
             file, dir_exists,
             [name |-> "jump", key |-> Current, arg |-> jump_index_ui], assigned)

\* The session of a click run that gets past the note box (lines 393-559),
\* to Submit Notes and to the navigation buttons.
ThroughNotes ==
    LET p == EndWidget(StartWidget(DatesPrefix(session_state, ClickDf, Current), Current), Current)
    IN  NotesSection(MessageSection(p.ss), ClickDf, Current)

\* Lines 577-580: Previous Article.
Previous ==
    /\ shown.upto = "end"
    /\ Rerun([ThroughNotes EXCEPT !.article_index = previous_index(@)],
             file, dir_exists, [name |-> "prev", key |-> Current, arg |-> None], assigned)

\* Lines 582-585: Next Article.
NextArticle ==
    /\ shown.upto = "end"
    /\ Rerun([ThroughNotes EXCEPT !.article_index = next_index(@)],
             file, dir_exists, [name |-> "next", key |-> Current, arg |-> None], assigned)

\* ------------------------------------------------------------ visibility
\* Lines 341-377: a judgment button is there unless it is the saved one.
SetVisibility(v) ==
    /\ existing_visible(ClickDf, Current) # v
    /\ Rerun([session_state EXCEPT !.visibility_saved = v],
             write_feedback(file, Current, v, existing_note_top(ClickDf, Current)),
             TRUE,
             [name |-> "set_visibility", key |-> Current, arg |-> v],
             assigned)

\* Lines 380-386: Undo is there when a judgment is saved.
Undo ==
    /\ existing_visible(ClickDf, Current) \in Judgments
    /\ Rerun([session_state EXCEPT !.visibility_saved = None],
             undo_feedback(file, Current), dir_exists,
             [name |-> "undo", key |-> Current, arg |-> None], assigned)

\* ----------------------------------------------------------------- dates
\* Mutant of clear_date: the row is appended without looking for the key.
clear_date_append(f, article_id, col) ==
    LET df0 == IF f.exists THEN read_csv(f) ELSE EmptyDf
    IN  to_csv(SetCell(AppendRow(df0, article_id, None, "", "", ""), article_id, col, ""))

\* Mutant of clear_date: the handler copied from the other button still
\* empties the other button's column.
clear_date_other(f, article_id, col) ==
    LET df0 == IF f.exists THEN read_csv(f) ELSE EmptyDf
        df1 == IF ~HasRow(df0, article_id)
               THEN AppendRow(df0, article_id, None, "", "", "")
               ELSE df0
        other == IF col = "new_start_date" THEN "new_end_date" ELSE "new_start_date"
    IN  to_csv(SetCell(df1, article_id, other, ""))

\* Lines 440-447 and 471-478: the file a Clear button writes.
clear_date(f, article_id, col) ==
    LET df0 == IF f.exists THEN read_csv(f) ELSE EmptyDf
        df1 == IF ~HasRow(df0, article_id)
               THEN AppendRow(df0, article_id, None, "", "", "")
               ELSE df0
    IN  to_csv(SetCell(df1, article_id, col, ""))

\* Lines 503-516: the file Save Corrected Dates writes.
save_dates(f, article_id, visible_val, new_start, new_end) ==
    LET df0 == IF f.exists THEN read_csv(f) ELSE EmptyDf
        df1 == IF ~HasRow(df0, article_id)
               THEN AppendRow(df0, article_id, visible_val, "", "", "")
               ELSE df0
        df2 == SetCell(df1, article_id, "new_start_date",
                       IF new_start # NoDate THEN isoformat(new_start) ELSE "")
        df3 == SetCell(df2, article_id, "new_end_date",
                       IF new_end # NoDate THEN isoformat(new_end) ELSE "")
    IN  to_csv(df3)

\* Mutant of dates_allowed: the check of the judgment is missing.
dates_allowed_always(visible_val) == TRUE

\* Line 496: the judgment Save Corrected Dates requires.
dates_allowed(visible_val) == visible_val \in Judgments

\* to_csv raises when the directory of the file is not there; the run ends
\* with the exception on the page, below what it had rendered.
Crash(ss1, rendered_start, rendered_end, upto, o) ==
    /\ steps < MaxSteps
    /\ session_state' \in AfterRun(ss1, Current, rendered_end, FALSE)
    /\ shown' = [article |-> Current,
                 visible |-> existing_visible(ClickDf, Current),
                 start |-> rendered_start,
                 end |-> IF rendered_end THEN ss1.end_w[Current] ELSE HiddenDate,
                 note |-> Hidden,
                 message |-> [type |-> "exception", text |-> "OSError"],
                 upto |-> upto]
    /\ op' = o
    /\ before' = file
    /\ nav_trail' = <<>>
    /\ steps' = steps + 1
    /\ UNCHANGED <<file, dir_exists, assigned, gal>>

\* The cells a Clear button assigns: both dates of a row it creates, and
\* the cleared column.
AssignedByClear(col) ==
    [assigned EXCEPT ![Current] =
        [c \in DateCols |-> IF c = col \/ ~HasRow(ClickDf, Current) THEN "" ELSE @[c]]]

\* Lines 438-454: Clear of the start date.
ClearStart ==
    LET p == StartWidget(DatesPrefix(session_state, ClickDf, Current), Current)
        o == [name |-> "clear_start", key |-> Current, arg |-> None]
    IN  IF dir_exists
        THEN Rerun([p.ss EXCEPT !.force_clear_start = @ \cup {Current},
                                !.date_message = [type |-> "success",
                                                  text |-> "Cleared corrected start date."]],
                   clear_date(file, Current, "new_start_date"), dir_exists, o,
                   AssignedByClear("new_start_date"))
        ELSE Crash(p.ss, p.ss.start_w[Current], FALSE, "clear_start", o)

\* Lines 469-485: Clear of the end date.
ClearEnd ==
    LET p == EndWidget(StartWidget(DatesPrefix(session_state, ClickDf, Current), Current), Current)
        o == [name |-> "clear_end", key |-> Current, arg |-> None]
    IN  /\ shown.upto \in {"clear_end", "end"}
        /\ IF dir_exists
           THEN Rerun([p.ss EXCEPT !.force_clear_end = @ \cup {Current},
                                   !.date_message = [type |-> "success",
                                                     text |-> "Cleared corrected end date."]],
                      clear_date(file, Current, "new_end_date"), dir_exists, o,
                      AssignedByClear("new_end_date"))
           ELSE Crash(p.ss, p.ss.start_w[Current], TRUE, "clear_end", o)

\* Lines 488-522: Save Corrected Dates.
SaveDates ==
    LET p == EndWidget(StartWidget(DatesPrefix(session_state, ClickDf, Current), Current), Current)
        new_start == p.ss.start_w[Current]
        new_end == p.ss.end_w[Current]
        visible_val == existing_visible(ClickDf, Current)
        o == [name |-> "save_dates", key |-> Current, arg |-> <<new_start, new_end>>]
    IN  /\ shown.upto = "end"
        /\ IF ~dates_allowed(visible_val)
           THEN Rerun([p.ss EXCEPT !.date_message =
                          [type |-> "error",
                           text |-> "ERROR: Please select whether the event is visible before saving dates."]],
                      file, dir_exists, o, assigned)
           ELSE Rerun([p.ss EXCEPT !.date_message = [type |-> "success",
                                                     text |-> "Saved corrected dates."]],
                      save_dates(file, Current, visible_val, new_start, new_end),
                      dir_exists, o,
                      [assigned EXCEPT ![Current] =
                          [new_start_date |-> IF new_start # NoDate THEN isoformat(new_start) ELSE "",
                           new_end_date |-> IF new_end # NoDate THEN isoformat(new_end) ELSE ""]])

\* ----------------------------------------------------------------- notes
\* Lines 562-570: Submit Notes.
SubmitNotes ==
    LET n == ThroughNotes
        note == n.note_w[Current]
    IN  /\ shown.upto = "end"
        /\ Rerun([n EXCEPT !.date_message = [type |-> "success", text |-> "Submitted notes."]],
                 write_feedback(file, Current, existing_visible(ClickDf, Current), note),
                 TRUE,
                 [name |-> "submit_notes", key |-> Current, arg |-> note],
                 assigned)

\* ------------------------------------------------------- typing and picking
\* The reviewer changes a widget; Streamlit stores the value and runs the script.
EditStart(d) ==
    /\ d # shown.start
    /\ Rerun([session_state EXCEPT !.start_w = Put(@, Current, d)], file, dir_exists,
             [name |-> "edit_start", key |-> Current, arg |-> d], assigned)

EditEnd(d) ==
    /\ shown.upto \in {"clear_end", "end"}
    /\ d # shown.end
    /\ Rerun([session_state EXCEPT !.end_w = Put(@, Current, d)], file, dir_exists,
             [name |-> "edit_end", key |-> Current, arg |-> d], assigned)

EditNote(t) ==
    /\ shown.upto = "end"
    /\ t # shown.note
    /\ Rerun([session_state EXCEPT !.note_w = Put(@, Current, t)], file, dir_exists,
             [name |-> "edit_note", key |-> Current, arg |-> t], assigned)

\* ---------------------------------------------------------- specification
Next ==
    \/ \E j \in JumpInputs : Jump(j)
    \/ Previous
    \/ NextArticle
    \/ \E v \in Judgments : SetVisibility(v)
    \/ Undo
    \/ ClearStart
    \/ ClearEnd
    \/ SaveDates
    \/ SubmitNotes
    \/ \E d \in StartPicks : EditStart(d)
    \/ \E d \in EndPicks : EditEnd(d)
    \/ \E t \in NoteTexts : EditNote(t)

Spec == Init /\ [][Next]_vars

\* ---------------------------------------------------- reading the store
\* The rows of key k in the file, the cell of a column as written on disk,
\* and the cell as load returns it (read_csv reads cell by cell).
DiskRows(f, k) == {i \in 1..Len(f.rows) : f.rows[i].article_id = k}

OnDisk(f, k) == f.exists /\ DiskRows(f, k) # {}

DiskCell(f, k, col) == f.rows[CHOOSE i \in DiskRows(f, k) : TRUE][col]

Loaded(f, k, col) == read_cell(DiskCell(f, k, col))

\* Key k has the same row, as load returns it, in f and g (or no row in both).
SameLoadedRow(f, g, k) ==
    /\ OnDisk(f, k) <=> OnDisk(g, k)
    /\ OnDisk(f, k) => \A i \in 1..Len(columns) : Loaded(f, k, columns[i]) = Loaded(g, k, columns[i])

OtherRowsKept(f, g, k) == \A k2 \in ArticleIds \ {k} : SameLoadedRow(f, g, k2)

\* ------------------------------------------------------------------- C1
\* C1: Save Corrected Dates on a key whose row is missing, or whose
\* visibility is none of Yes/No/Unsure, shows the error message and writes
\* nothing: the file is the file from before the click, whatever the two
\* pickers hold.
C1_RejectedSaveWritesNothing ==
    (op.name = "save_dates"
        /\ (~OnDisk(before, op.key) \/ DiskCell(before, op.key, "visible") \notin Judgments))
    => (file = before /\ shown.message.type = "error")

\* A rejected save of a picked start date on a row that has a note but no judgment.
C1_Witness ==
    /\ op.name = "save_dates"
    /\ op.arg[1] # NoDate
    /\ OnDisk(before, op.key)
    /\ DiskCell(before, op.key, "visible") = ""
    /\ shown.message.type = "error"

\* ------------------------------------------------------------------- C2
\* C2: after a judgment button, load returns for the key a row whose visible
\* is the judgment, whose notes and dates are those load returned before,
\* and every other key's row is as before; a key without a row gets one
\* whose other cells are empty.
C2_SetVisibilityIsolated ==
    op.name = "set_visibility" =>
        /\ OnDisk(file, op.key)
        /\ Cardinality(DiskRows(file, op.key)) = 1
        /\ Loaded(file, op.key, "visible") = op.arg
        /\ OnDisk(before, op.key) =>
              \A c \in {"notes", "new_start_date", "new_end_date"} :
                  Loaded(file, op.key, c) = Loaded(before, op.key, c)
        /\ ~OnDisk(before, op.key) =>
              \A c \in {"notes", "new_start_date", "new_end_date"} :
                  DiskCell(file, op.key, c) = ""
        /\ OtherRowsKept(before, file, op.key)

\* A judgment set on a row that held a note and a start date, with another row in the store.
C2_Witness ==
    /\ op.name = "set_visibility"
    /\ OnDisk(before, op.key)
    /\ DiskCell(file, op.key, "notes") = "hello"
    /\ Len(file.rows) >= 2

\* ------------------------------------------------------------------- C3
\* C3: Submit Notes leaves the key's visibility and both corrected dates on
\* disk as they were; with no file or no row it creates the row with the
\* typed note and empty visibility and dates.
C3_SetNoteIsolated ==
    op.name = "submit_notes" =>
        /\ OnDisk(file, op.key)
        /\ DiskCell(file, op.key, "notes") = op.arg
        /\ OnDisk(before, op.key) =>
              \A c \in {"visible", "new_start_date", "new_end_date"} :
                  DiskCell(file, op.key, c) = DiskCell(before, op.key, c)
        /\ ~OnDisk(before, op.key) =>
              \A c \in {"visible", "new_start_date", "new_end_date"} :
                  DiskCell(file, op.key, c) = ""

\* A note submitted on a row that holds a judgment and a saved date.
C3_Witness ==
    /\ op.name = "submit_notes"
    /\ op.arg = "hello"
    /\ OnDisk(before, op.key)
    /\ DiskCell(before, op.key, "visible") \in Judgments
    /\ DiskCell(before, op.key, "new_start_date") # ""

\* ------------------------------------------------------------------- C4
\* C4: after a Clear button, load shows the cleared date of the key empty,
\* the other date, the notes and the visibility as before; a key without a
\* row gets a placeholder row with empty visibility.
C4_ClearDateUpsert ==
    op.name \in {"clear_start", "clear_end"} =>
        LET col == IF op.name = "clear_start" THEN "new_start_date" ELSE "new_end_date"
        IN  /\ OnDisk(file, op.key)
            /\ Loaded(file, op.key, col) = NaN
            /\ OnDisk(before, op.key) =>
                  \A c \in {"visible", "new_start_date", "new_end_date", "notes"} \ {col} :
                      Loaded(file, op.key, c) = Loaded(before, op.key, c)
            /\ ~OnDisk(before, op.key) => DiskCell(file, op.key, "visible") = ""

\* ------------------------------------------------------------------- C5
\* C5: undo_feedback on any key of any store empties the key's visibility
\* and keeps its dates and notes as load returns them, writes nothing when
\* there is no file or no row for the key, and applied twice leaves the file
\* that applying it once leaves; the Undo button leaves exactly that file.
C5_UndoClearsOnlyVisibility ==
    /\ \A k \in ArticleIds : \A g \in {undo_feedback(file, k)} :
          /\ ~OnDisk(file, k) => g = file
          /\ OnDisk(file, k) =>
                /\ DiskCell(g, k, "visible") = ""
                /\ \A c \in {"new_start_date", "new_end_date", "notes"} :
                       Loaded(g, k, c) = Loaded(file, k, c)
                /\ OtherRowsKept(file, g, k)
          /\ undo_feedback(g, k) = g
    /\ op.name = "undo" =>
          /\ DiskCell(file, op.key, "visible") = ""
          /\ \A c \in {"new_start_date", "new_end_date", "notes"} :
                 Loaded(file, op.key, c) = Loaded(before, op.key, c)

\* Undo was clicked on a judged row that holds a date, in a store where another key has no row.
C5_Witness ==
    /\ op.name = "undo"
    /\ DiskCell(before, op.key, "visible") \in Judgments
    /\ DiskCell(file, op.key, "new_start_date") # ""
    /\ \E k \in ArticleIds : ~OnDisk(file, k)

\* ------------------------------------------------------------------- C6
\* C6: the file holds at most one row per article_id.
C6_OneRowPerArticle ==
    \A i, j \in 1..Len(file.rows) :
        file.rows[i].article_id = file.rows[j].article_id => i = j

\* A Clear button wrote to a key that already had its row, in a store of several rows.
C6_Witness ==
    /\ op.name \in {"clear_start", "clear_end"}
    /\ OnDisk(before, op.key)
    /\ Len(file.rows) >= 2
    /\ file # before

\* ------------------------------------------------------------------- C7
IndexOf(k) == CHOOSE i \in 0..(Len(articles) - 1) : articles[i + 1] = k

\* C7: the article index stays within 0..n-1; Next shows the article at
\* (i+1) mod n, Previous the one at (i-1) mod n, Go the one at the entered
\* position; from a session opened on three articles, Go to the second and
\* three times Next show a2, a3, a1, a2.
C7_NavigationCyclic ==
    /\ session_state.article_index \in 0..(Len(articles) - 1)
    /\ shown.article = articles[session_state.article_index + 1]
    /\ op.name = "next" =>
          session_state.article_index = (IndexOf(op.key) + 1) % Len(articles)
    /\ op.name = "prev" =>
          session_state.article_index = (IndexOf(op.key) + Len(articles) - 1) % Len(articles)
    /\ op.name = "jump" => session_state.article_index + 1 = op.arg
    /\ (/\ Len(nav_trail) = 4
        /\ nav_trail[1].name = "jump" /\ nav_trail[1].arg = 2
        /\ \A i \in 2..4 : nav_trail[i].name = "next")
       => [i \in 1..4 |-> nav_trail[i].article] = <<"a2", "a3", "a1", "a2">>

\* The scenario was run: Go to the second article, then Next three times, wrapping to a1.
C7_Witness ==
    /\ Len(nav_trail) = 4
    /\ nav_trail[1].name = "jump" /\ nav_trail[1].arg = 2
    /\ \A i \in 2..4 : nav_trail[i].name = "next"
    /\ nav_trail[3].article = "a1"

\* ------------------------------------------------------------------- C9
\* What load gives the pickers and the note box for key k.
PersistedDate(f, k, col) ==
    IF OnDisk(f, k) /\ DiskCell(f, k, col) # "" THEN fromisoformat(DiskCell(f, k, col)) ELSE NoDate

PersistedNote(f, k) ==
    IF OnDisk(f, k) /\ Loaded(f, k, "notes") # NaN THEN Loaded(f, k, "notes") ELSE ""

\* C9: when a navigation action changes the current article, the pickers
\* and the note box of the article now shown hold its values from the
\* store, not a draft left in the session.
C9_NoStaleDraft ==
    (op.name \in NavNames /\ shown.article # op.key) =>
        /\ shown.start = PersistedDate(file, shown.article, "new_start_date")
        /\ shown.end = PersistedDate(file, shown.article, "new_end_date")
        /\ shown.note = PersistedNote(file, shown.article)

\* The article left holds an unsubmitted note draft in the session, and the
\* article arrived at shows its stored note.
C9_Witness ==
    /\ op.name \in NavNames
    /\ shown.article # op.key
    /\ op.key \in DOMAIN session_state.note_w
    /\ session_state.note_w[op.key] = "hello"
    /\ PersistedNote(file, op.key) = ""
    /\ shown.note = PersistedNote(file, shown.article)

\* ------------------------------------------------------------------ C10
\* A date cell of an existing row that the app last assigned the empty
\* string (cleared), and one it never assigned.
Cleared(k, c) == OnDisk(file, k) /\ assigned[k][c] = ""

NeverWritten(k, c) == OnDisk(file, k) /\ assigned[k][c] = None

\* C10 as stated: the date cell a Clear button has just emptied is stored
\* differently from a never-written date cell of an existing row, and load
\* tells the two apart.
C10_ClearedStoredDifferently ==
    op.name \in {"clear_start", "clear_end"} =>
        LET col == IF op.name = "clear_start" THEN "new_start_date" ELSE "new_end_date"
        IN  \A k \in ArticleIds : \A c \in DateCols :
                (Cleared(op.key, col) /\ NeverWritten(k, c)) =>
                    /\ DiskCell(file, op.key, col) # DiskCell(file, k, c)
                    /\ Loaded(file, op.key, col) # Loaded(file, k, c)

\* C10 amended: a cleared date cell and a never-written date cell of an
\* existing row are both stored as the empty cell, and load returns the
\* same missing value for both.
C10_ClearedStoredAsNeverWritten ==
    \A k \in ArticleIds : \A c \in DateCols :
        (Cleared(k, c) \/ NeverWritten(k, c)) =>
            (DiskCell(file, k, c) = "" /\ Loaded(file, k, c) = NaN)

\* A Clear button emptied a date that had been saved, while another row's date was never written.
C10_Witness ==
    /\ op.name = "clear_start"
    /\ OnDisk(before, op.key)
    /\ DiskCell(before, op.key, "new_start_date") # ""
    /\ Cleared(op.key, "new_start_date")
    /\ \E k \in ArticleIds : NeverWritten(k, "new_start_date")

\* --------------------------------------- the gallery call, step by step
\* Listings of up to MaxImages distinct files, in the order iterdir gives.
Listings ==
    {l \in UNION {[1..n -> ImageNames] : n \in 0..MaxImages} :
        \A i, j \in 1..Len(l) : l[i] = l[j] => i = j}

Timelines == UNION {[1..n -> TimelineEntries] : n \in 0..MaxEntries}

\* The predicted dates of metadata.json (lines 289 and 295), where the keys
\* are present: {year, month, day} structs, one with a month that does not
\* parse.
StartMarkers ==
    {[year |-> 2023, month |-> "January", day |-> 5],
     [year |-> 2023, month |-> "Smarch", day |-> 5]}

EndMarkers ==
    {[year |-> 2023, month |-> "January", day |-> 5],
     [year |-> 2023, month |-> "January", day |-> 10],
     [year |-> 2023, month |-> "Smarch", day |-> 10]}

\* The keys of metadata.json that hold the predicted dates; either may be
\* missing.
MarkerKeys == {"start_date", "end_date"}

\* The page before line 288, with the article's metadata, timeline and
\* imagery directory.
GalleryPage(dir, sat_timeline, metadata) ==
    [GalleryCall(dir, sat_timeline, NoDate, NoDate) EXCEPT
        !.pc = "page", !.metadata = metadata]

InitGallery ==
    /\ file = NoFile
    /\ dir_exists = FALSE
    /\ session_state = Run(FreshSession, file).ss
    /\ shown = Run(FreshSession, file).shown
    /\ op = [name |-> "open", key |-> articles[1], arg |-> None]
    /\ before = file
    /\ assigned = [a \in ArticleIds |-> [c \in DateCols |-> None]]
    /\ nav_trail = <<>>
    /\ steps = 0
    /\ \E l \in Listings, t \in Timelines, ks \in SUBSET MarkerKeys,
          s \in StartMarkers, e \in EndMarkers :
          LET metadata == [k \in ks |-> IF k = "start_date" THEN s ELSE e]
          IN  \/ gal = GalleryPage([exists |-> TRUE, listing |-> l], t, metadata)
              \/ l = <<>> /\ gal = GalleryPage([exists |-> FALSE, listing |-> <<>>], t, metadata)

AppUnchanged ==
    UNCHANGED <<file, dir_exists, session_state, shown, op, before, assigned, nav_trail, steps>>

\* Lines 288-306: the predicted dates are parsed and the gallery is called
\* with them.
GalleryOpen ==
    /\ gal.pc = "page"
    /\ LET p == predicted_dates(gal.metadata)
       IN  gal' = [GalleryCall(gal.dir, gal.sat_timeline,
                               marker_arg(p.start_date), marker_arg(p.end_date))
                   EXCEPT !.metadata = gal.metadata]
    /\ AppUnchanged

\* Lines 42-47: the listing; no image ends the call with the warning.
GalleryList ==
    /\ gal.pc = "list"
    /\ LET r == list_images(gal.dir)
       IN  gal' = IF r.error
                  THEN [gal EXCEPT !.pc = "done", !.outcome.kind = "TypeError"]
                  ELSE IF r.files = <<>>
                  THEN [gal EXCEPT !.pc = "done", !.outcome.kind = "No images found"]
                  ELSE [gal EXCEPT !.pc = "captions", !.image_files = r.files]
    /\ AppUnchanged

\* Lines 50-64: one entry of the timeline.
GalleryCaption ==
    /\ gal.pc = "captions"
    /\ gal.i <= Len(gal.sat_timeline)
    /\ gal' = [gal EXCEPT !.captions = add_caption(@, gal.sat_timeline[gal.i],
                                                   gal.start_date, gal.end_date),
                          !.i = @ + 1]
    /\ AppUnchanged

\* Line 67: the loop over the timeline is over.
GalleryCaptionsDone ==
    /\ gal.pc = "captions"
    /\ gal.i > Len(gal.sat_timeline)
    /\ gal' = [gal EXCEPT !.pc = "filter", !.i = 1]
    /\ AppUnchanged

\* Lines 68-73: one image of the cloud filter.
GalleryFilter ==
    /\ gal.pc = "filter"
    /\ gal.i <= Len(gal.image_files)
    /\ gal' = [gal EXCEPT !.filtered = IF skips(gal.captions, gal.image_files[gal.i])
                                       THEN @ ELSE Append(@, gal.image_files[gal.i]),
                          !.i = @ + 1]
    /\ AppUnchanged

\* Lines 74-102: the viewer over the images that are left.  One image is
\* shown without a slider; otherwise st.slider(0, count - 1, 0) gives the
\* index, and raises when count is 0.
GalleryRender ==
    /\ gal.pc = "filter"
    /\ gal.i > Len(gal.image_files)
    /\ LET count == Len(gal.filtered)
       IN  \/ /\ count = 1
              /\ gal' = [gal EXCEPT !.pc = "done",
                            !.outcome = [kind |-> "single", name |-> gal.filtered[1].name,
                                         caption |-> shown_caption(gal.captions, gal.filtered[1]),
                                         index |-> 0]]
           \/ /\ count > 1
              /\ \E index \in 0..(count - 1) :
                    gal' = [gal EXCEPT !.pc = "done",
                               !.outcome = [kind |-> "slider", name |-> gal.filtered[index + 1].name,
                                            caption |-> shown_caption(gal.captions, gal.filtered[index + 1]),
                                            index |-> index]]
           \/ /\ count = 0
              /\ gal' = [gal EXCEPT !.pc = "done", !.outcome.kind = "StreamlitAPIException"]
    /\ AppUnchanged

NextGallery ==
    \/ GalleryOpen
    \/ GalleryList
    \/ GalleryCaption
    \/ GalleryCaptionsDone
    \/ GalleryFilter
    \/ GalleryRender

SpecGallery == InitGallery /\ [][NextGallery]_vars

\* ------------------------------------------------------------------- C8
\* C8: when the directory holds images and the cloud filter leaves none, the
\* call ends with the 'no imagery available' notice and neither a slider
\* nor an exception.
C8_AllCloudedIsInformational ==
    (gal.pc = "done" /\ gal.image_files # <<>> /\ gal.filtered = <<>>) =>
        gal.outcome.kind = "No images found"

\* ------------------------------------------------------------------ C11
\* The entries of the timeline whose date conversion succeeds.
ValidEntries(t) == {i \in 1..Len(t) : EntryDate(t[i]) # NoDate}

\* The caption the timeline maps to date d: that of its last entry at d.
TimelineCaption(t, d) ==
    LET last == CHOOSE i \in ValidEntries(t) :
                    /\ EntryDate(t[i]) = d
                    /\ \A j \in ValidEntries(t) : EntryDate(t[j]) = d => j <= i
    IN  t[last].caption

\* The captions of a finished loop are those of the valid entries, with
\* "(START) " at date S and "(END) " in front of it at date E, where S and E
\* are dates or NoDate, and plain everywhere else.
CaptionsAsMarked(S, E) ==
    LET t == gal.sat_timeline
        dates == {EntryDate(t[i]) : i \in ValidEntries(t)}
    IN  /\ DOMAIN gal.captions = dates
        /\ \A d \in dates :
              gal.captions[d] =
                  (IF E # NoDate /\ d = E THEN "(END) " ELSE "")
                  \o (IF S # NoDate /\ d = S THEN "(START) " ELSE "")
                  \o TimelineCaption(t, d)

\* The loop over the timeline has run to its end.
CaptionsBuilt == gal.pc = "filter" \/ (gal.pc = "done" /\ gal.image_files # <<>>)

\* C11: once the captions are built, the caption at the predicted start date
\* carries "(START) " and the one at the predicted end date "(END) " (END
\* in front of START on one date), each marker whenever its own date is in
\* the metadata and parses; captions at other dates are plain, and entries
\* whose date does not convert are skipped.
C11_EachMarkerApplied ==
    CaptionsBuilt =>
        CaptionsAsMarked(MetadataDate(gal.metadata, "start_date"),
                         MetadataDate(gal.metadata, "end_date"))

\* ------------------------------------------------------------------ C12
\* The files are in the order of the claim: those with a parsed date by
\* date, those without by file name.
ListedInOrder(files) ==
    \A i, j \in 1..Len(files) :
        i < j =>
            /\ (KeyIsDate(files[i]) /\ KeyIsDate(files[j])) =>
                   ~DateLess(parse_date_from_filename(files[j]),
                             parse_date_from_filename(files[i]))
            /\ (~KeyIsDate(files[i]) /\ ~KeyIsDate(files[j])) =>
                   NameRank(files[i].name) <= NameRank(files[j].name)

\* The image files of the directory listing.
ImagesOf(dir) == {dir.listing[i] : i \in {k \in 1..Len(dir.listing) : IsImage(dir.listing[k])}}

\* C12: for every directory listing, with or without a mix of dated and
\* undated file names, list_images does not fail and returns all the images
\* of the listing, each once, dated ones in date order and undated ones in
\* name order.
C12_ListImagesTotalOrder ==
    gal.pc \notin {"idle", "page", "list"} =>
        /\ gal.outcome.kind # "TypeError"
        /\ Len(gal.image_files) = Cardinality(ImagesOf(gal.dir))
        /\ {gal.image_files[i] : i \in 1..Len(gal.image_files)} = ImagesOf(gal.dir)
        /\ ListedInOrder(gal.image_files)

====
